---- MODULE Spec2Model ----
(***************************************************************************)
(* Model of src/inventory_system.py: class Inventory, an item -> quantity  *)
(* dictionary with JSON persistence.                                       *)
(*                                                                         *)
(* stock_data is a Python dict: modelled as a sequence of [k, v] entries   *)
(* with distinct keys, in insertion order.  The backing file is modelled   *)
(* by its kind (missing / unreadable / undecodable / present) and, when    *)
(* present, its text as a sequence of JSON lexical tokens.                 *)
(***************************************************************************)
EXTENDS Integers, Sequences, FiniteSets, TLC

VARIABLES pc, stock_data, file, last, ret, prev, saved

vars == <<pc, stock_data, file, last, ret, prev, saved>>

\* ---------------------------------------------------------------- bounds
\* quantities are counted in lots of Step units, so that stored quantities
\* take one and two decimal digits
Step == 6
\* add_item is not called once an item holds MaxStock lots
MaxStock == 2
\* quantity arguments range over -1..MaxArg lots
MaxArg == 2
\* thresholds range over 0..MaxThreshold lots, and the default
MaxThreshold == 2

\* default of check_low_items(threshold=5)
DefaultThreshold == 5

Items == {"a", "b"}

\* ------------------------------------------------------- argument values
\* Python values passed as arguments, tagged with their runtime type.
StrItem(s) == [kind |-> "str", v |-> s]
NonStrItem == [kind |-> "other", v |-> "a"]
NoItem == [kind |-> "none", v |-> ""]

IntQty(n) == [kind |-> "int", v |-> n]
FloatQty(n) == [kind |-> "float", v |-> n]
NoQty == [kind |-> "none", v |-> 0]

ItemArgs == {StrItem(s) : s \in Items} \cup {NonStrItem}
QtyArgs == {IntQty(n * Step) : n \in (0 - 1)..MaxArg} \cup {FloatQty(Step)}
\* the (item, qty) argument pairs of add_item and remove_item
CallArgs ==
    {<<i, q>> : i \in {StrItem(s) : s \in Items}, q \in QtyArgs}
    \cup {<<NonStrItem, IntQty(Step)>>}
Thresholds == {n * Step : n \in 0..MaxThreshold} \cup {DefaultThreshold}

\* isinstance(item, str)
IsStr(item) == item.kind = "str"
\* isinstance(qty, int)
IsInt(qty) == qty.kind = "int"

\* ------------------------------------------------------------ dict model
Has(d, k) == \E i \in 1..Len(d) : d[i].k = k
IndexOf(d, k) == CHOOSE i \in 1..Len(d) : d[i].k = k
DictGet(d, k, dflt) == IF Has(d, k) THEN d[IndexOf(d, k)].v ELSE dflt
DictSet(d, k, x) ==
    IF Has(d, k) THEN [d EXCEPT ![IndexOf(d, k)].v = x]
    ELSE Append(d, [k |-> k, v |-> x])
DictDel(d, k) == SelectSeq(d, LAMBDA e : e.k # k)
Keys(d) == {d[i].k : i \in 1..Len(d)}

\* ------------------------------------------------------------ JSON text
\* The file's text is the sequence of JSON lexical tokens json.dump writes
\* (insignificant whitespace left out): "{", "}", ":", ",", "-", one token
\* per decimal digit, and one token per key string (the item name).
Digits == <<"0", "1", "2", "3", "4", "5", "6", "7", "8", "9">>
IsDigit(c) == \E i \in 1..10 : Digits[i] = c
DigitVal(c) == (CHOOSE i \in 1..10 : Digits[i] = c) - 1
IsKey(c) == c \in Items

\* mutant: only the last decimal digit is written
FormatNat_LastDigit(n) == <<Digits[(n % 10) + 1]>>

RECURSIVE FormatNat(_)
FormatNat(n) ==
    IF n < 10 THEN <<Digits[n + 1]>>
    ELSE FormatNat(n \div 10) \o <<Digits[(n % 10) + 1]>>
FormatInt(n) == IF n < 0 THEN <<"-">> \o FormatNat(0 - n) ELSE FormatNat(n)

RECURSIVE DumpMembers(_, _)
DumpMembers(d, i) ==
    IF i > Len(d) THEN <<>>
    ELSE (IF i > 1 THEN <<",">> ELSE <<>>)
         \o <<d[i].k, ":">> \o FormatInt(d[i].v) \o DumpMembers(d, i + 1)
\* json.dump(self.stock_data, file, indent=4), complete output
JsonDump(d) == <<"{">> \o DumpMembers(d, 1) \o <<"}">>

ParseFail == [ok |-> FALSE, value |-> <<>>]
RECURSIVE DigitRunEnd(_, _)
DigitRunEnd(text, i) ==
    IF i <= Len(text) /\ IsDigit(text[i]) THEN DigitRunEnd(text, i + 1) ELSE i
RECURSIVE NatOf(_, _, _)
NatOf(text, i, j) ==
    IF j = i THEN 0 ELSE NatOf(text, i, j - 1) * 10 + DigitVal(text[j - 1])
\* a JSON integer starting at i: -? (0 | [1-9][0-9]*)
ParseNumber(text, i) ==
    LET neg == i <= Len(text) /\ text[i] = "-"
        s == IF neg THEN i + 1 ELSE i
        e == DigitRunEnd(text, s)
    IN IF e = s \/ (e - s > 1 /\ text[s] = "0")
       THEN [ok |-> FALSE, val |-> 0, next |-> i]
       ELSE [ok |-> TRUE,
             val |-> IF neg THEN 0 - NatOf(text, s, e) ELSE NatOf(text, s, e),
             next |-> e]
RECURSIVE ParseMembers(_, _, _)
ParseMembers(text, i, acc) ==
    IF i + 1 <= Len(text) /\ IsKey(text[i]) /\ text[i + 1] = ":"
    THEN LET num == ParseNumber(text, i + 2)
             acc2 == DictSet(acc, text[i], num.val)
             n == num.next
         IN IF ~num.ok THEN ParseFail
            ELSE IF n < Len(text) /\ text[n] = ","
                 THEN ParseMembers(text, n + 1, acc2)
            ELSE IF n = Len(text) /\ text[n] = "}"
                 THEN [ok |-> TRUE, value |-> acc2]
            ELSE ParseFail
    ELSE ParseFail
\* json.load(file) on a text of the model (an object text, or a prefix of
\* one): ok = FALSE stands for json.JSONDecodeError.
JsonLoad(text) ==
    IF Len(text) < 2 \/ text[1] # "{" THEN ParseFail
    ELSE IF Len(text) = 2 /\ text[2] = "}" THEN [ok |-> TRUE, value |-> <<>>]
    ELSE ParseMembers(text, 2, <<>>)

\* ------------------------------------------------------------ the file
Missing == [kind |-> "missing", text |-> <<>>]
\* open() raises an OSError other than FileNotFoundError (a directory, no permission)
Unreadable == [kind |-> "unreadable", text |-> <<>>]
\* the bytes are not UTF-8: reading raises UnicodeDecodeError, writing replaces them
Undecodable == [kind |-> "undecodable", text |-> <<>>]
Present(text) == [kind |-> "present", text |-> text]

InitFiles ==
    {Missing, Unreadable, Undecodable,
     Present(<<"{", "a", ":">>),
     Present(JsonDump(<<[k |-> "a", v |-> Step]>>))}

\* ------------------------------------------------------ pure operations
\* self.stock_data.get(item, 0)
get_qty_value(d, item) == DictGet(d, item, 0)

\* mutant: the comparison is <= instead of <
RECURSIVE check_low_items_value_Inclusive(_, _)
check_low_items_value_Inclusive(d, threshold) ==
    IF d = <<>> THEN <<>>
    ELSE (IF Head(d).v <= threshold THEN <<Head(d).k>> ELSE <<>>)
         \o check_low_items_value_Inclusive(Tail(d), threshold)

\* [item for item, qty in self.stock_data.items() if qty < threshold]
RECURSIVE check_low_items_value(_, _)
check_low_items_value(d, threshold) ==
    IF d = <<>> THEN <<>>
    ELSE (IF Head(d).v < threshold THEN <<Head(d).k>> ELSE <<>>)
         \o check_low_items_value(Tail(d), threshold)

\* mutant: the except branches do not reset the map
LoadResult_KeepOnError(cur, f) ==
    IF f.kind = "missing" THEN [stock |-> cur, raised |-> FALSE]
    ELSE IF f.kind \in {"unreadable", "undecodable"}
         THEN [stock |-> cur, raised |-> TRUE]
    ELSE LET r == JsonLoad(f.text)
         IN IF r.ok THEN [stock |-> r.value, raised |-> FALSE]
            ELSE [stock |-> cur, raised |-> FALSE]

\* the body of load_data on map cur and file f: the new map, and whether an
\* exception leaves the call (only FileNotFoundError and JSONDecodeError are caught)
LoadResult(cur, f) ==
    IF f.kind = "missing" THEN [stock |-> <<>>, raised |-> FALSE]
    ELSE IF f.kind \in {"unreadable", "undecodable"}
         THEN [stock |-> cur, raised |-> TRUE]
    ELSE LET r == JsonLoad(f.text)
         IN IF r.ok THEN [stock |-> r.value, raised |-> FALSE]
            ELSE [stock |-> <<>>, raised |-> FALSE]

\* mutant: the quantity is overwritten instead of incremented
AddResult_Overwrite(d, item, qty) == DictSet(d, item, qty)

\* self.stock_data[item] = self.stock_data.get(item, 0) + qty
AddResult(d, item, qty) == DictSet(d, item, DictGet(d, item, 0) + qty)

\* mutant: the entry is deleted only when the result is exactly 0
RemoveResult_KeepNegative(d, item, qty) ==
    LET d1 == DictSet(d, item, DictGet(d, item, 0) - qty)
    IN IF DictGet(d1, item, 0) = 0 THEN DictDel(d1, item) ELSE d1

\* mutant: a result <= 0 is clamped to 0 and the entry kept
RemoveResult_ClampZero(d, item, qty) ==
    LET d1 == DictSet(d, item, DictGet(d, item, 0) - qty)
    IN IF DictGet(d1, item, 0) <= 0 THEN DictSet(d1, item, 0) ELSE d1

\* self.stock_data[item] -= qty, then del when the result is <= 0
RemoveResult(d, item, qty) ==
    LET d1 == DictSet(d, item, DictGet(d, item, 0) - qty)
    IN IF DictGet(d1, item, 0) <= 0 THEN DictDel(d1, item) ELSE d1

\* ------------------------------------------------------------- records
Call(op, item, qty, threshold, io, raised) ==
    [op |-> op, item |-> item, qty |-> qty, threshold |-> threshold,
     io |-> io, raised |-> raised]
NoRet == [kind |-> "none", int |-> 0, list |-> <<>>]
IntRet(n) == [kind |-> "int", int |-> n, list |-> <<>>]
ListRet(l) == [kind |-> "list", int |-> 0, list |-> l]
NotSaved == [valid |-> FALSE, map |-> <<>>]

\* -------------------------------------------------------------- state
\* pc: "new" before the first Inventory(...) call, "ready" while a store
\* exists, "failed" when the constructor raised and there is no store.
\* last: the last call, ret: its return value, prev: stock_data as the
\* last call found it, saved: the map the file holds from a completed save.
Init ==
    /\ pc = "new"
    /\ stock_data = <<>>
    /\ file \in InitFiles
    /\ last = Call("none", NoItem, NoQty, 0, "none", FALSE)
    /\ ret = NoRet
    /\ prev = <<>>
    /\ saved = NotSaved

\* Inventory(file_path): stock_data = {}, then load_data()
Inventory_init ==
    /\ pc \in {"new", "ready"}
    /\ LET r == LoadResult(<<>>, file)
       IN /\ stock_data' = r.stock
          /\ pc' = IF r.raised THEN "failed" ELSE "ready"
          /\ last' = Call("init", NoItem, NoQty, 0, "none", r.raised)
    /\ prev' = <<>>
    /\ ret' = NoRet
    /\ UNCHANGED <<file, saved>>

load_data ==
    /\ pc = "ready"
    /\ LET r == LoadResult(stock_data, file)
       IN /\ stock_data' = r.stock
          /\ last' = Call("load_data", NoItem, NoQty, 0, "none", r.raised)
    /\ prev' = stock_data
    /\ ret' = NoRet
    /\ UNCHANGED <<pc, file, saved>>

add_item(item, qty) ==
    /\ pc = "ready"
    /\ IF ~IsStr(item) \/ ~IsInt(qty) THEN UNCHANGED stock_data
       ELSE IF qty.v < 0 THEN UNCHANGED stock_data
       ELSE /\ qty.v = 0 \/ DictGet(stock_data, item.v, 0) + qty.v <= MaxStock * Step
            /\ stock_data' = AddResult(stock_data, item.v, qty.v)
    /\ last' = Call("add_item", item, qty, 0, "none", FALSE)
    /\ prev' = stock_data
    /\ ret' = NoRet
    /\ UNCHANGED <<pc, file, saved>>

\* mutant: the qty < 0 check is missing
remove_item_NoSignCheck(item, qty) ==
    /\ pc = "ready"
    /\ IF ~IsStr(item) \/ ~IsInt(qty) THEN UNCHANGED stock_data
       ELSE IF ~Has(stock_data, item.v) THEN UNCHANGED stock_data
       ELSE stock_data' = RemoveResult(stock_data, item.v, qty.v)
    /\ last' = Call("remove_item", item, qty, 0, "none", FALSE)
    /\ prev' = stock_data
    /\ ret' = NoRet
    /\ UNCHANGED <<pc, file, saved>>

remove_item(item, qty) ==
    /\ pc = "ready"
    /\ IF ~IsStr(item) \/ ~IsInt(qty) THEN UNCHANGED stock_data
       ELSE IF ~Has(stock_data, item.v) THEN UNCHANGED stock_data
       ELSE IF qty.v < 0 THEN UNCHANGED stock_data
       ELSE stock_data' = RemoveResult(stock_data, item.v, qty.v)
    /\ last' = Call("remove_item", item, qty, 0, "none", FALSE)
    /\ prev' = stock_data
    /\ ret' = NoRet
    /\ UNCHANGED <<pc, file, saved>>

get_qty(item) ==
    /\ pc = "ready"
    /\ ret' = IntRet(get_qty_value(stock_data, item))
    /\ last' = Call("get_qty", StrItem(item), NoQty, 0, "none", FALSE)
    /\ prev' = stock_data
    /\ UNCHANGED <<pc, stock_data, file, saved>>

check_low_items(threshold) ==
    /\ pc = "ready"
    /\ ret' = ListRet(check_low_items_value(stock_data, threshold))
    /\ last' = Call("check_low_items", NoItem, NoQty, threshold, "none", FALSE)
    /\ prev' = stock_data
    /\ UNCHANGED <<pc, stock_data, file, saved>>

\* mutant: the except branch resets the map, as load_data's do
save_data_ResetOnError(io) ==
    /\ pc = "ready"
    /\ LET text == JsonDump(stock_data)
       IN \/ /\ io = "ok"
             /\ file' = Present(text)
             /\ saved' = [valid |-> TRUE, map |-> stock_data]
             /\ UNCHANGED stock_data
          \/ /\ io = "open_failed"
             /\ UNCHANGED <<file, saved>>
             /\ stock_data' = <<>>
          \/ /\ io = "write_failed"
             /\ \E n \in 0..(Len(text) - 1) : file' = Present(SubSeq(text, 1, n))
             /\ saved' = NotSaved
             /\ stock_data' = <<>>
    /\ last' = Call("save_data", NoItem, NoQty, 0, io, FALSE)
    /\ prev' = stock_data
    /\ ret' = NoRet
    /\ UNCHANGED pc

\* save_data; io is what the file system does: "ok", "open_failed" (open
\* raises OSError, the file is left as it was) or "write_failed" (open has
\* truncated the file, an OSError ends the write after n < Len(text) tokens)
save_data(io) ==
    /\ pc = "ready"
    /\ LET text == JsonDump(stock_data)
       IN \/ /\ io = "ok"
             /\ file' = Present(text)
             /\ saved' = [valid |-> TRUE, map |-> stock_data]
          \/ /\ io = "open_failed"
             /\ UNCHANGED <<file, saved>>
          \/ /\ io = "write_failed"
             /\ \E n \in 0..(Len(text) - 1) : file' = Present(SubSeq(text, 1, n))
             /\ saved' = NotSaved
    /\ last' = Call("save_data", NoItem, NoQty, 0, io, FALSE)
    /\ prev' = stock_data
    /\ ret' = NoRet
    /\ UNCHANGED <<pc, stock_data>>

SaveOutcomes == {"ok", "open_failed", "write_failed"}

Next ==
    \/ Inventory_init
    \/ load_data
    \/ \E a \in CallArgs : add_item(a[1], a[2])
    \/ \E a \in CallArgs : remove_item(a[1], a[2])
    \/ \E item \in Items : get_qty(item)
    \/ \E threshold \in Thresholds : check_low_items(threshold)
    \/ \E io \in SaveOutcomes : save_data(io)

Spec == Init /\ [][Next]_vars

\* ------------------------------------------------------------- claims
Elems(l) == {l[i] : i \in 1..Len(l)}
\* the last call was add_item / remove_item with a text item and an integer qty
TypedCall(op) == last.op = op /\ IsStr(last.item) /\ IsInt(last.qty)
\* the two maps hold the same keys with the same quantities
SameMap(d, e) ==
    /\ Keys(d) = Keys(e)
    /\ \A k \in Keys(d) : DictGet(d, k, 0) = DictGet(e, k, 0)
\* the backing file exists and its text is not a JSON document
Malformed == file.kind = "present" /\ ~JsonLoad(file.text).ok

\* C1: in every state reachable from an empty store by add_item and
\* remove_item calls, every key of the stock map maps to a strictly
\* positive quantity.
C1_AllEntriesPositive ==
    \A i \in 1..Len(stock_data) : stock_data[i].v > 0

\* C2: get_qty(item) never returns a negative value, for any item present
\* or absent, after any sequence of add_item and remove_item calls on a
\* store whose initial map holds no negative quantity.
C2_GetQtyNeverNegative ==
    /\ \A item \in Items : get_qty_value(stock_data, item) >= 0
    /\ last.op = "get_qty" => ret.kind = "int" /\ ret.int >= 0
\* a removal of more than the stored quantity has just been carried out
C2_Witness ==
    /\ TypedCall("remove_item")
    /\ Has(prev, last.item.v)
    /\ last.qty.v > DictGet(prev, last.item.v, 0)
    /\ get_qty_value(stock_data, last.item.v) = 0

\* C3: remove_item(item, qty) with item present and integer qty >= 0 leaves
\* exactly stored - qty when that is > 0 and deletes the entry otherwise;
\* an absent item has get_qty 0, is in no check_low_items result, is not
\* in the file a completed save_data writes, and becomes present again
\* only by an add_item of it (or by reading the file back).
C3_RemoveDecrementsOrDeletes ==
    /\ (TypedCall("remove_item") /\ Has(prev, last.item.v) /\ last.qty.v >= 0) =>
          LET r == DictGet(prev, last.item.v, 0) - last.qty.v
          IN IF r > 0
             THEN Has(stock_data, last.item.v)
                  /\ get_qty_value(stock_data, last.item.v) = r
             ELSE ~Has(stock_data, last.item.v)
    /\ \A item \in Items : ~Has(stock_data, item) =>
          /\ get_qty_value(stock_data, item) = 0
          /\ \A t \in Thresholds :
                item \notin Elems(check_low_items_value(stock_data, t))
          /\ (last.op = "save_data" /\ last.io = "ok") =>
                (file.kind = "present" /\ item \notin Elems(file.text))
    /\ \A item \in Items : (~Has(prev, item) /\ Has(stock_data, item)) =>
          \/ last.op = "add_item" /\ last.item = StrItem(item)
          \/ last.op \in {"load_data", "init"}
\* a removal of more than the stored quantity deleted one entry of two
C3_Witness ==
    /\ TypedCall("remove_item")
    /\ Has(prev, last.item.v)
    /\ last.qty.v > DictGet(prev, last.item.v, 0)
    /\ ~Has(stock_data, last.item.v)
    /\ Len(prev) = 2

\* C4: add_item(item, qty) with a text item and integer qty >= 0 makes
\* get_qty(item) its previous value (0 if absent) plus qty, and leaves
\* every other item as it was; repeated adds accumulate.
C4_AddIncrements ==
    (TypedCall("add_item") /\ last.qty.v >= 0) =>
        /\ ~last.raised
        /\ get_qty_value(stock_data, last.item.v)
             = get_qty_value(prev, last.item.v) + last.qty.v
        /\ \A other \in Items \ {last.item.v} :
              /\ Has(stock_data, other) <=> Has(prev, other)
              /\ get_qty_value(stock_data, other) = get_qty_value(prev, other)
\* a second add to an item already in stock, with another item present
C4_Witness ==
    /\ TypedCall("add_item")
    /\ last.qty.v > 0
    /\ get_qty_value(prev, last.item.v) > 0
    /\ get_qty_value(stock_data, last.item.v) = 2 * Step
    /\ Len(prev) = 2

\* the last call was one the code rejects
Rejected ==
    \/ /\ last.op = "add_item"
       /\ ~IsStr(last.item) \/ ~IsInt(last.qty) \/ last.qty.v < 0
    \/ /\ last.op = "remove_item"
       /\ \/ ~IsStr(last.item) \/ ~IsInt(last.qty)
          \/ last.qty.v < 0
          \/ ~Has(prev, last.item.v)
\* C5: every rejected call (add_item with qty < 0, remove_item with
\* qty < 0, remove_item of an absent item, a non-integer qty or a non-text
\* item) leaves the stock map exactly as it was and returns normally.
C5_RejectedCallsAreNoOps ==
    Rejected => (stock_data = prev /\ ~last.raised)
\* remove_item with a negative qty on an item that is in stock
C5_Witness ==
    /\ TypedCall("remove_item")
    /\ last.qty.v < 0
    /\ Has(prev, last.item.v)

\* C6: a successful save_data followed by load_data on the same path, by
\* the same store or a freshly constructed one, yields a map with exactly
\* the keys and quantities the map had at the time of the save.
C6_RoundTrip ==
    (last.op \in {"load_data", "init"} /\ saved.valid) =>
        (~last.raised /\ SameMap(stock_data, saved.map))
\* a load that replaced a different in-memory map by a saved map of two
\* entries, one of them with a two-digit quantity
C6_Witness ==
    /\ last.op = "load_data"
    /\ saved.valid
    /\ Len(saved.map) = 2
    /\ \E i \in 1..2 : saved.map[i].v >= 10
    /\ prev # saved.map
    /\ stock_data = saved.map

\* C7: load_data never raises to the caller whatever the state of the
\* backing file (missing, malformed, unreadable, undecodable), also when
\* called by the constructor, so constructing an Inventory never fails.
C7_LoadNeverRaises ==
    last.op \in {"load_data", "init"} => (~last.raised /\ pc = "ready")

\* C8: when the backing file is missing or holds malformed JSON, load_data
\* resets the stock map to the empty map whatever it held before, so that
\* get_qty is 0 for every item and check_low_items is empty.
C8_LoadResetsOnMissingOrMalformed ==
    (last.op = "load_data" /\ (file.kind = "missing" \/ Malformed)) =>
        /\ ~last.raised
        /\ stock_data = <<>>
        /\ \A item \in Items : get_qty_value(stock_data, item) = 0
        /\ \A t \in Thresholds : check_low_items_value(stock_data, t) = <<>>
\* a load from a truncated file discarded a non-empty map
C8_Witness ==
    /\ last.op = "load_data"
    /\ Malformed
    /\ prev # <<>>
    /\ stock_data = <<>>

\* C9: save_data never changes the in-memory stock map, whether the write
\* succeeds or fails, and an I/O failure is swallowed: the call returns
\* normally and get_qty / check_low_items give what they gave before.
C9_SaveLeavesMapUntouched ==
    last.op = "save_data" =>
        /\ ~last.raised
        /\ stock_data = prev
        /\ \A item \in Items :
              get_qty_value(stock_data, item) = get_qty_value(prev, item)
        /\ \A t \in Thresholds :
              check_low_items_value(stock_data, t) = check_low_items_value(prev, t)
\* a save of a non-empty map failed in the middle of the write
C9_Witness ==
    /\ last.op = "save_data"
    /\ last.io = "write_failed"
    /\ Malformed
    /\ stock_data # <<>>

\* C10: check_low_items(threshold) returns exactly the items of the stock
\* map whose quantity is strictly less than threshold, each once, and does
\* not modify the map.
C10_CheckLowItemsExact ==
    last.op = "check_low_items" =>
        /\ ret.kind = "list"
        /\ Elems(ret.list)
             = {k \in Keys(stock_data) : DictGet(stock_data, k, 0) < last.threshold}
        /\ Len(ret.list) = Cardinality(Elems(ret.list))
        /\ stock_data = prev
\* one item below the threshold is returned, one item at the threshold is not
C10_Witness ==
    /\ last.op = "check_low_items"
    /\ Len(ret.list) = 1
    /\ \E k \in Keys(stock_data) :
          /\ DictGet(stock_data, k, 0) = last.threshold
          /\ k \notin Elems(ret.list)
    /\ \E k \in Keys(stock_data) : 0 < DictGet(stock_data, k, 0) /\ k \in Elems(ret.list)

====
